---- MODULE Spec2Model ----
(***************************************************************************)
(* Model of fbi_wanted_analysis: the record cleaner (cleaning.py) and the  *)
(* aggregation functions (analysis.py), as operations a caller applies to  *)
(* a pandas DataFrame it holds.                                            *)
(*                                                                         *)
(* A DataFrame is [cols, rows]: the set of column names and the sequence   *)
(* of rows, each row a function from the column names to a cell value.     *)
(* Cell values are tagged records, so that None/NaN, NaT, strings, lists,  *)
(* integers, booleans, timestamps and ratios stay distinct.                *)
(***************************************************************************)
EXTENDS Integers, Sequences, FiniteSets, TLC

VARIABLES df, ret, passed, cleaned, page

vars == <<df, ret, passed, cleaned, page>>

(***************************************************************************)
(* Bounds of the model.                                                    *)
(***************************************************************************)
MaxRows == 2

(***************************************************************************)
(* Cell values.                                                            *)
(***************************************************************************)
Null == [kind |-> "null"]

NaT == [kind |-> "nat"]

\* The float NaN, as distinct from None.
NaN == [kind |-> "nan"]

Str(s) == [kind |-> "str", s |-> s]

Num(n) == [kind |-> "int", n |-> n]

Bool(b) == [kind |-> "bool", b |-> b]

Ts(d) == [kind |-> "ts", day |-> d]

List(xs) == [kind |-> "list", items |-> xs]

Frac(a, b) == [kind |-> "frac", num |-> a, den |-> b]

\* pd.notna on a scalar: None, NaN, pd.NA and NaT are missing.
notna(x) == x.kind \notin {"null", "nat", "nan"}

\* isinstance(x, list)
is_list(x) == x.kind = "list"

(***************************************************************************)
(* DataFrames.                                                             *)
(***************************************************************************)
Frame(cols, rows) == [cols |-> cols, rows |-> rows]

\* pd.DataFrame(): no columns, no rows.
EmptyFrame == Frame({}, <<>>)

Rows(t) == 1..Len(t.rows)

Range(f) == {f[i] : i \in DOMAIN f}

Column(t, c) == [i \in 1..Len(t.rows) |-> t.rows[i][c]]

\* df[c] = values, on the table itself: adds the column or overwrites it.
WithColumn(t, c, values) ==
    Frame(t.cols \cup {c},
          [i \in 1..Len(t.rows) |->
              [k \in t.cols \cup {c} |-> IF k = c THEN values[i] ELSE t.rows[i][k]]])

(***************************************************************************)
(* A function body runs on a frame of references: arg is the object the    *)
(* caller passed, local is the object the function's name df is bound to,  *)
(* and aliased says whether the two are the same object.  A write through  *)
(* the local name reaches the caller's object exactly when aliased.        *)
(***************************************************************************)
Enter(t) == [arg |-> t, local |-> t, aliased |-> TRUE]

NoCopy(f) == f

\* df = df.copy(): the local name is bound to a new object.
DfCopy(f) == [f EXCEPT !.aliased = FALSE]

\* df = <an expression that builds a new DataFrame>
Rebind(f, t) == [f EXCEPT !.local = t, !.aliased = FALSE]

\* df[c] = values
SetColumn(f, c, values) ==
    LET t == WithColumn(f.local, c, values)
    IN  [f EXCEPT !.local = t, !.arg = IF f.aliased THEN t ELSE f.arg]

Return(f, t) == [arg |-> f.arg, status |-> "ok", value |-> t]

ReturnEmpty(f, exc) == Return(f, EmptyFrame)

Raise(f, exc) == [arg |-> f.arg, status |-> exc, value |-> EmptyFrame]

(***************************************************************************)
(* pd.to_datetime on one element.  The texts of a column share the API's   *)
(* one format; strptime is given by its value on the modelled texts.       *)
(***************************************************************************)
DateTexts == {"2024-01-05", "2024-01-15T00:00:00", "2024-02-01"}

strptime(s) ==
    CASE s = "2024-01-05" -> 20240105
      [] s = "2024-01-15T00:00:00" -> 20240115
      [] s = "2024-02-01" -> 20240201

Parsable(x) == x.kind \in {"null", "nat", "nan", "ts"} \/ (x.kind = "str" /\ x.s \in DateTexts)

\* errors="ignore": a text that cannot be parsed is left as it is
to_datetime_scalar_ignore(x) ==
    CASE x.kind = "ts" -> x
      [] x.kind \in {"null", "nat", "nan"} -> NaT
      [] x.kind = "str" /\ x.s \in DateTexts -> Ts(strptime(x.s))
      [] OTHER -> x

\* only texts are converted
to_datetime_scalar_texts_only(x) ==
    CASE x.kind = "str" /\ x.s \in DateTexts -> Ts(strptime(x.s))
      [] OTHER -> NaT

to_datetime_scalar(x) ==
    CASE x.kind = "ts" -> x
      [] x.kind \in {"null", "nat", "nan"} -> NaT
      [] x.kind = "str" /\ x.s \in DateTexts -> Ts(strptime(x.s))
      [] OTHER -> NaT

\* pd.to_datetime(column, errors="coerce"): never raises.
to_datetime_coerce(values) == [i \in DOMAIN values |-> to_datetime_scalar(values[i])]

(***************************************************************************)
(* cleaning.py                                                             *)
(***************************************************************************)
\* sep.join(items) for a list of strings
RECURSIVE join(_, _)
join(sep, items) ==
    IF items = <<>> THEN ""
    ELSE IF Len(items) = 1 THEN items[1].s
    ELSE items[1].s \o sep \o join(sep, Tail(items))

\* a missing value is left missing
normalize_field_offices_nofill(x) ==
    IF is_list(x) THEN Str(join(", ", x.items)) ELSE x

\* lambda x: ", ".join(x) if isinstance(x, list) else (x if pd.notna(x) else "")
normalize_field_offices(x) ==
    IF is_list(x) THEN Str(join(", ", x.items))
    ELSE IF notna(x) THEN x
    ELSE Str("")

\* df["publication"] = pd.to_datetime(df["publication"], errors="coerce")
convert_publication(f) ==
    IF "publication" \in f.local.cols
    THEN SetColumn(f, "publication", to_datetime_coerce(Column(f.local, "publication")))
    ELSE f

\* df["field_offices"] = df["field_offices"].apply(lambda x: ...)
join_field_offices(f) ==
    IF "field_offices" \in f.local.cols
    THEN SetColumn(f, "field_offices",
                   [i \in Rows(f.local) |->
                       normalize_field_offices(f.local.rows[i]["field_offices"])])
    ELSE f

\* return df
return_df(f) == Return(f, f.local)

clean_wanted(t) == return_df(join_field_offices(convert_publication(DfCopy(Enter(t)))))

(***************************************************************************)
(* analysis.py.  Each statement of a function body is an operator from     *)
(* the frame before it to the frame after it.                              *)
(***************************************************************************)
\* pd.to_datetime(column): raises on a text it cannot parse.
to_datetime(values) == [i \in DOMAIN values |-> to_datetime_scalar(values[i])]

Unparsable(t, c) == \E i \in Rows(t) : ~Parsable(t.rows[i][c])

RECURSIVE SortedInts(_)
SortedInts(S) ==
    IF S = {} THEN <<>>
    ELSE LET m == CHOOSE x \in S : \A y \in S : x <= y
         IN  <<m>> \o SortedInts(S \ {m})

\* The modelled strings in Python's str order; groupby sorts its keys by it.
StrOrder == <<"", "Bombing", "CO", "None", "Terrorism", "UT", "nan">>

StrRank(s) == CHOOSE i \in 1..Len(StrOrder) : StrOrder[i] = s

count_values(values) == Cardinality({i \in DOMAIN values : notna(values[i])})

\* Series.nunique(): the number of distinct values that are not missing.
nunique(values) == Cardinality({v \in Range(values) : notna(v)})

\* The rows of a table at the positions of a set, in order.
RowsAt(t, keep) == SelectSeq([i \in Rows(t) |-> <<i, t.rows[i]>>], LAMBDA p : p[1] \in keep)

Seconds(pairs) == [i \in 1..Len(pairs) |-> pairs[i][2]]

TakeRows(t, keep) == Frame(t.cols, Seconds(RowsAt(t, keep)))

\* df.dropna(subset=[c])
dropna(t, c) == TakeRows(t, {i \in Rows(t) : notna(t.rows[i][c])})

\* df["snapshot_date"] = pd.to_datetime(df["snapshot_date"])
convert_snapshot_date(f) ==
    SetColumn(f, "snapshot_date", to_datetime(Column(f.local, "snapshot_date")))

\* The snapshot dates that key a group; groupby leaves out a missing key.
SnapshotDays(d) ==
    {d.rows[i]["snapshot_date"].day : i \in {j \in Rows(d) : notna(d.rows[j]["snapshot_date"])}}

\* df.groupby("snapshot_date")["uid"].nunique(), for one date
ListingsOn(d, day) ==
    nunique([i \in {j \in Rows(d) : d.rows[j]["snapshot_date"] = Ts(day)} |-> d.rows[i]["uid"]])

QuantityFrame(d, days) ==
    Frame({"snapshot_date", "total_listings"},
          [k \in 1..Len(days) |->
              [c \in {"snapshot_date", "total_listings"} |->
                  IF c = "snapshot_date" THEN Ts(days[k]) ELSE Num(ListingsOn(d, days[k]))]])

\* out = df.groupby("snapshot_date")["uid"].nunique()...; return out
return_quantity(f) == Return(f, QuantityFrame(f.local, SortedInts(SnapshotDays(f.local))))

quantity_over_time(t) ==
    IF "snapshot_date" \notin t.cols THEN Raise(DfCopy(Enter(t)), "KeyError")
    ELSE IF Unparsable(t, "snapshot_date") THEN Raise(DfCopy(Enter(t)), "ValueError")
    ELSE IF "uid" \notin t.cols
    THEN Raise(convert_snapshot_date(DfCopy(Enter(t))), "KeyError")
    ELSE return_quantity(convert_snapshot_date(DfCopy(Enter(t))))

\* a / b in lowest terms
RECURSIVE GCD(_, _)
GCD(a, b) == IF b = 0 THEN a ELSE GCD(b, a % b)

Ratio(a, b) == Frac(a \div GCD(a, b), b \div GCD(a, b))

\* x < y for two ratios with positive denominators
FracLess(x, y) == x.num * y.den < y.num * x.den

RECURSIVE SeqSum(_)
SeqSum(v) == IF v = <<>> THEN 0 ELSE Head(v) + SeqSum(Tail(v))

grand_total(counts, day) == SeqSum([j \in 1..Len(counts) |-> counts[j].listings])

\* counts.groupby("snapshot_date")["listings"].sum(), for one snapshot date
bucket_total(counts, day) ==
    SeqSum([j \in 1..Len(counts) |->
               IF counts[j].key[1] = day THEN counts[j].listings ELSE 0])

\* df = df.dropna(subset=[geography])
dropna_geography(f, geography) == Rebind(f, dropna(f.local, geography))

\* The (snapshot_date, geography) keys of the groups.
GeoKeys(d, geography) ==
    {<<d.rows[i]["snapshot_date"].day, d.rows[i][geography]>> :
        i \in {j \in Rows(d) : notna(d.rows[j]["snapshot_date"])}}

\* groupby's order of the keys: by date, then by geography
GeoKeyLess(a, b) ==
    \/ a[1] < b[1]
    \/ a[1] = b[1] /\ StrRank(a[2].s) < StrRank(b[2].s)

SortedGeoKeys(K) ==
    [j \in 1..Cardinality(K) |->
        CHOOSE k \in K : Cardinality({o \in K : GeoKeyLess(o, k)}) = j - 1]

\* groupby(["snapshot_date", geography])["uid"].nunique(), for one key
GeoListings(d, geography, k) ==
    nunique([i \in {j \in Rows(d) : /\ d.rows[j]["snapshot_date"] = Ts(k[1])
                                    /\ d.rows[j][geography] = k[2]} |-> d.rows[i]["uid"]])

GeoCounts(d, geography, keys) ==
    [j \in 1..Len(keys) |-> [key |-> keys[j], listings |-> GeoListings(d, geography, keys[j])]]

\* out = counts.merge(totals, on="snapshot_date")
GeoMerged(counts) ==
    [j \in 1..Len(counts) |->
        [key |-> counts[j].key,
         listings |-> counts[j].listings,
         total |-> bucket_total(counts, counts[j].key[1])]]

\* out["share"] = out["listings"] / out["total"]
Share(r) == IF r.total = 0 THEN NaN ELSE Ratio(r.listings, r.total)

\* sort_values(["snapshot_date", "share"], ascending=[True, False])
ShareBefore(a, b) ==
    \/ a.key[1] < b.key[1]
    \/ /\ a.key[1] = b.key[1]
       /\ b.listings * a.total < a.listings * b.total

GeoFrame(sorted, geography) ==
    Frame({"snapshot_date", geography, "listings", "total", "share"},
          [j \in 1..Len(sorted) |->
              [c \in {"snapshot_date", geography, "listings", "total", "share"} |->
                  CASE c = "snapshot_date" -> Ts(sorted[j].key[1])
                    [] c = geography -> sorted[j].key[2]
                    [] c = "listings" -> Num(sorted[j].listings)
                    [] c = "total" -> Num(sorted[j].total)
                    [] c = "share" -> Share(sorted[j])]])

GeoResult(d, geography) ==
    GeoFrame(SortSeq(GeoMerged(GeoCounts(d, geography,
                                         SortedGeoKeys(GeoKeys(d, geography)))),
                     ShareBefore),
             geography)

return_shares(f, geography) == Return(f, GeoResult(f.local, geography))

geographic_concentration_over_time(t, geography) ==
    IF "snapshot_date" \notin t.cols THEN Raise(DfCopy(Enter(t)), "KeyError")
    ELSE IF Unparsable(t, "snapshot_date") THEN Raise(DfCopy(Enter(t)), "ValueError")
    ELSE IF ~({geography, "uid"} \subseteq t.cols)
    THEN Raise(convert_snapshot_date(DfCopy(Enter(t))), "KeyError")
    ELSE return_shares(dropna_geography(convert_snapshot_date(DfCopy(Enter(t))), geography),
                       geography)

\* str(x) of a subject label; str(None) is "None" and str(nan) is "nan".
py_str(x) ==
    CASE x.kind = "str" -> x.s
      [] x.kind = "null" -> "None"
      [] x.kind = "nan" -> "nan"

\* str.strip(), by its value on the modelled labels.
Strip(s) ==
    CASE s = " Terrorism " -> "Terrorism"
      [] s = "  " -> ""
      [] OTHER -> s

\* What Series.explode makes of one cell: a list gives its elements, an
\* empty list gives NaN, a scalar gives itself.
ExplodeCell(x) ==
    IF is_list(x) THEN (IF x.items = <<>> THEN <<NaN>> ELSE x.items) ELSE <<x>>

RECURSIVE Flatten(_)
Flatten(ss) == IF ss = <<>> THEN <<>> ELSE Head(ss) \o Flatten(Tail(ss))

\* The rows one row explodes into: one per cell, the other cells repeated.
ExplodeRow(row, c, cells) ==
    [j \in 1..Len(cells) |-> [k \in DOMAIN row |-> IF k = c THEN cells[j] ELSE row[k]]]

\* DataFrame.explode(c)
explode(t, c) ==
    Frame(t.cols,
          Flatten([i \in Rows(t) |-> ExplodeRow(t.rows[i], c, ExplodeCell(t.rows[i][c]))]))

\* DataFrame.drop_duplicates([a, b]): the first row of each (a, b) is kept.
drop_duplicates(t, a, b) ==
    TakeRows(t, {i \in Rows(t) :
                    ~\E j \in 1..i - 1 :
                        /\ t.rows[j][a] = t.rows[i][a]
                        /\ t.rows[j][b] = t.rows[i][b]})

\* median of a sorted sequence of numbers; NaN when there is none
Median(v) ==
    IF Len(v) = 0 THEN NaN
    ELSE IF Len(v) % 2 = 1 THEN Ratio(v[(Len(v) + 1) \div 2], 1)
    ELSE Ratio(v[Len(v) \div 2] + v[Len(v) \div 2 + 1], 2)

\* df[df["reward_has_amount"].fillna(False)]
with_amount(t) ==
    TakeRows(t, {i \in Rows(t) : t.rows[i]["reward_has_amount"] = Bool(TRUE)})

\* rewards = df[df["reward_has_amount"].fillna(False)].copy()
keep_rewarded(f) == DfCopy(Rebind(f, with_amount(f.local)))

\* rewards = rewards.dropna(subset=["subjects"])
dropna_subjects(f) == Rebind(f, dropna(f.local, "subjects"))

\* rewards = rewards.explode("subjects")
explode_subjects(f) == Rebind(f, explode(f.local, "subjects"))

\* rewards["subjects"] = rewards["subjects"].astype(str).str.strip()
clean_labels(f) ==
    SetColumn(f, "subjects",
              [i \in Rows(f.local) |-> Str(Strip(py_str(f.local.rows[i]["subjects"])))])

\* rewards = rewards[rewards["subjects"] != ""]
drop_blank_labels(f) ==
    Rebind(f, TakeRows(f.local, {i \in Rows(f.local) : f.local.rows[i]["subjects"] # Str("")}))

NoDedup(t) == t

\* rewards.drop_duplicates(["uid", "subjects"])
dedup_listing_subject(t) == drop_duplicates(t, "uid", "subjects")

drop_duplicate_labels(f) == Rebind(f, dedup_listing_subject(f.local))

Labels(d) == {d.rows[i]["subjects"].s : i \in Rows(d)}

\* groupby("subjects"): the keys in sorted order
SortedLabels(L) ==
    [j \in 1..Cardinality(L) |->
        CHOOSE k \in L : Cardinality({o \in L : StrRank(o) < StrRank(k)}) = j - 1]

AmountsOf(rows) == [i \in 1..Len(rows) |-> rows[i]["reward_amount_max_usd"].n]

\* The amounts of a group that are not missing, in ascending order.
GroupValues(d, label) ==
    SortSeq(AmountsOf(SelectSeq(d.rows,
                                LAMBDA r : /\ r["subjects"] = Str(label)
                                           /\ notna(r["reward_amount_max_usd"]))),
            LAMBDA x, y : x < y)

\* .agg(median_reward="median", mean_reward="mean", max_reward="max", listings="count")
GroupStats(label, v) ==
    [crime_type |-> Str(label),
     median_reward |-> Median(v),
     mean_reward |-> IF v = <<>> THEN NaN ELSE Ratio(SeqSum(v), Len(v)),
     max_reward |-> IF v = <<>> THEN NaN ELSE Num(v[Len(v)]),
     listings |-> Num(Len(v))]

Stats(d, keys) == [j \in 1..Len(keys) |-> GroupStats(keys[j], GroupValues(d, keys[j]))]

\* sort_values("median_reward", ascending=False); NaN goes last
MedianBefore(a, b) ==
    /\ a.median_reward # NaN
    /\ \/ b.median_reward = NaN
       \/ FracLess(b.median_reward, a.median_reward)

RewardFrame(sorted) ==
    Frame({"crime_type", "median_reward", "mean_reward", "max_reward", "listings"},
          [j \in 1..Len(sorted) |->
              [c \in {"crime_type", "median_reward", "mean_reward", "max_reward",
                      "listings"} |-> sorted[j][c]]])

RewardResult(d) == RewardFrame(SortSeq(Stats(d, SortedLabels(Labels(d))), MedianBefore))

return_rewards(f) == Return(f, RewardResult(f.local))

reward_by_crime_type(t) ==
    IF ~({"reward_has_amount", "subjects", "uid", "reward_amount_max_usd"} \subseteq t.cols)
    THEN Raise(Enter(t), "KeyError")
    ELSE return_rewards(drop_duplicate_labels(drop_blank_labels(clean_labels(
             explode_subjects(dropna_subjects(keep_rewarded(Enter(t))))))))

(***************************************************************************)
(* The reward text parser (fbi_wanted_analysis.rewards.parse_reward), from *)
(* its contract: "$" amounts with thousands separators and an optional     *)
(* scale word; min and max of all amounts found; "up to"; "additional";    *)
(* the sponsoring program.  A text is read as its sequence of tokens.      *)
(***************************************************************************)
Word(w) == [kind |-> "word", w |-> w]

Amount(chars) == [kind |-> "amount", chars |-> chars]

\* The tokens of the modelled texts; an amount token holds the characters
\* that follow its "$".
RewardTokens(s) ==
    CASE s = "The FBI is offering a reward of up to $10,000." ->
            <<Word("the"), Word("fbi"), Word("is"), Word("offering"), Word("a"),
              Word("reward"), Word("of"), Word("up"), Word("to"),
              Amount(<<"1", "0", ",", "0", "0", "0">>)>>
      [] s = "Reward of up to $2 million and an additional $200,000." ->
            <<Word("reward"), Word("of"), Word("up"), Word("to"), Amount(<<"2">>),
              Word("million"), Word("and"), Word("an"), Word("additional"),
              Amount(<<"2", "0", "0", ",", "0", "0", "0">>)>>
      [] s = "Information leading to arrest may be eligible for a reward." ->
            <<Word("information"), Word("leading"), Word("to"), Word("arrest"),
              Word("may"), Word("be"), Word("eligible"), Word("for"), Word("a"),
              Word("reward")>>
      [] OTHER -> <<>>

DigitValue(ch) ==
    CASE ch = "0" -> 0 [] ch = "1" -> 1 [] ch = "2" -> 2 [] ch = "3" -> 3
      [] ch = "4" -> 4 [] ch = "5" -> 5 [] ch = "6" -> 6 [] ch = "7" -> 7
      [] ch = "8" -> 8 [] ch = "9" -> 9

\* The number written by digits and thousands separators.
RECURSIVE AmountValue(_, _)
AmountValue(chars, acc) ==
    IF chars = <<>> THEN acc
    ELSE IF Head(chars) = "," THEN AmountValue(Tail(chars), acc)
    ELSE AmountValue(Tail(chars), acc * 10 + DigitValue(Head(chars)))

ScaleOf(tok) ==
    IF tok.kind # "word" THEN 1
    ELSE CASE tok.w = "thousand" -> 1000
           [] tok.w = "million" -> 1000000
           [] tok.w = "billion" -> 1000000000
           [] OTHER -> 1

\* Every amount of the text, each multiplied by the scale word that follows it.
Amounts(toks) ==
    {AmountValue(toks[i].chars, 0) * (IF i < Len(toks) THEN ScaleOf(toks[i + 1]) ELSE 1) :
        i \in {j \in 1..Len(toks) : toks[j].kind = "amount"}}

SetMax(S) == CHOOSE x \in S : \A y \in S : y <= x

SetMin(S) == CHOOSE x \in S : \A y \in S : x <= y

parse_reward(x) ==
    LET toks == IF x.kind = "str" THEN RewardTokens(x.s) ELSE <<>>
        amts == Amounts(toks)
        words == {toks[i].w : i \in {j \in 1..Len(toks) : toks[j].kind = "word"}}
    IN  [reward_has_text |-> Bool(toks # <<>>),
         reward_has_amount |-> Bool(amts # {}),
         reward_amount_min_usd |-> IF amts = {} THEN Null ELSE Num(SetMin(amts)),
         reward_amount_max_usd |-> IF amts = {} THEN Null ELSE Num(SetMax(amts)),
         reward_is_up_to |->
             Bool(\E i \in 1..Len(toks) - 1 :
                     /\ toks[i] = Word("up")
                     /\ toks[i + 1] = Word("to")
                     /\ \E j \in i + 2..Len(toks) : toks[j].kind = "amount"),
         reward_mentions_additional |-> Bool(words \cap {"additional", "plus"} # {}),
         reward_program |->
             IF "fbi" \in words THEN Str("FBI")
             ELSE IF {"rewards", "for", "justice"} \subseteq words
                  THEN Str("Rewards for Justice")
                  ELSE Null]

RewardFields ==
    {"reward_has_text", "reward_has_amount", "reward_amount_min_usd",
     "reward_amount_max_usd", "reward_is_up_to", "reward_mentions_additional",
     "reward_program"}

(***************************************************************************)
(* The tables a caller holds at the start.  Raw tables are what            *)
(* fetch_current_wanted keeps of the API's items.                          *)
(***************************************************************************)
PublicationTexts == {Str("2024-01-15T00:00:00"), Str("not-a-date"), Null}

FieldOfficeCells ==
    {List(<<Str("denver"), Str("saltlakecity")>>), List(<<>>), Null, Str("newyork")}

RewardTexts == {Str("The FBI is offering a reward of up to $10,000."), Null}

RawRow(i, p, o, r) ==
    [c \in {"uid", "publication", "field_offices", "reward_text"} |->
        CASE c = "uid" -> Num(i)
          [] c = "publication" -> p
          [] c = "field_offices" -> o
          [] c = "reward_text" -> r]

RawCols == {"uid", "publication", "field_offices", "reward_text"}

RawTable(x) == Frame(RawCols, [i \in DOMAIN x |-> RawRow(i, x[i][1], x[i][2], x[i][3])])

RawCells(n) == [1..n -> PublicationTexts \X FieldOfficeCells \X RewardTexts]

\* Tables of dated snapshots: the listings seen on each snapshot date.  uid
\* is the listing's identifier and is never missing.
UIDs == {Num(1), Num(2)}

\* uid is only ever compared for equality: the first row's uid is fixed.
UidColumns(n) == {u \in [1..n -> UIDs] : n > 0 => u[1] = Num(1)}

SnapshotDates == {Str("2024-01-05"), Str("2024-02-01"), Str("not-a-date"), Null}

States == {Str("UT"), Str("CO"), Null}

SnapshotCols == {"uid", "snapshot_date", "state"}

SnapshotTable(u, x) ==
    Frame(SnapshotCols,
          [i \in DOMAIN x |->
              [c \in SnapshotCols |->
                  CASE c = "uid" -> u[i]
                    [] c = "snapshot_date" -> x[i][1]
                    [] c = "state" -> x[i][2]]])

SnapshotCells(n) == [1..n -> SnapshotDates \X States]

\* Cleaned listings with their subject tags and parsed reward.  The reward
\* columns obey the data model: an amount is there exactly when
\* reward_has_amount is true.
SubjectCells ==
    {Null,
     List(<<>>),
     List(<<Str("Terrorism")>>),
     List(<<Str("Terrorism"), Str("Bombing")>>),
     List(<<Str("Terrorism"), Str("Terrorism")>>),
     List(<<Str(" Terrorism "), Str("  ")>>),
     List(<<Null>>)}

RewardCells ==
    {<<Bool(TRUE), Num(100000)>>, <<Bool(TRUE), Num(50000)>>,
     <<Bool(FALSE), Null>>, <<Null, Null>>}

RewardCols == {"uid", "subjects", "reward_has_amount", "reward_amount_max_usd"}

RewardTable(u, x) ==
    Frame(RewardCols,
          [i \in DOMAIN x |->
              [c \in RewardCols |->
                  CASE c = "uid" -> u[i]
                    [] c = "subjects" -> x[i][1]
                    [] c = "reward_has_amount" -> x[i][2][1]
                    [] c = "reward_amount_max_usd" -> x[i][2][2]]])

RewardListings(n) == [1..n -> SubjectCells \X RewardCells]

\* A table that lacks column c of the columns an aggregation names.
Without(t, c) ==
    Frame(t.cols \ {c}, [i \in Rows(t) |-> [k \in t.cols \ {c} |-> t.rows[i][k]]])

\* The geography columns a caller asks for.
GeographyColumns == {"state", "region"}

(***************************************************************************)
(* The dashboard (streamlit_app.py, main).  A run of main() works on the   *)
(* session's cleaned table; the sidebar's widgets are left at their        *)
(* defaults but for the reward filter.  shown is what the run has put on   *)
(* the page's main area so far, locals the local names bound so far.       *)
(***************************************************************************)
RewardFilters == {"Any", "Has reward text", "No reward text", "Has numeric amount"}

Session(t, reward_filter) ==
    [df |-> t, filtered |-> t, reward_filter |-> reward_filter,
     start_date |-> Null, end_date |-> Null,
     rewards_df |-> EmptyFrame, locals |-> {"df", "filtered"},
     shown |-> <<>>, status |-> "running"]

\* st.error, st.info, st.header, st.subheader, st.metric, charts and tables
Show(r, element) == [r EXCEPT !.shown = Append(@, element)]

\* return, or the end of main()
Finish(r) == [r EXCEPT !.status = "ok"]

\* an exception raised out of main()
Fail(r, exc) == [r EXCEPT !.status = exc]

\* DataFrame.empty: no rows or no columns
Empty(t) == t.rows = <<>> \/ t.cols = {}

\* if df.empty: st.error(...); return
check_empty(r) ==
    IF r.status # "running" THEN r
    ELSE IF Empty(r.df) THEN Finish(Show(r, "error: No data returned from the FBI API."))
    ELSE r

PublicationDays(t) ==
    IF "publication" \in t.cols
    THEN {t.rows[i]["publication"].day : i \in {j \in Rows(t) : notna(t.rows[j]["publication"])}}
    ELSE {}

MinDay(S) == CHOOSE x \in S : \A y \in S : x <= y

MaxDay(S) == CHOOSE x \in S : \A y \in S : y <= x

\* min_date, max_date and the date_input that starts at (min_date, max_date)
publication_range(r) ==
    IF r.status # "running" \/ PublicationDays(r.df) = {} THEN r
    ELSE [r EXCEPT !.start_date = Ts(MinDay(PublicationDays(r.df))),
                   !.end_date = Ts(MaxDay(PublicationDays(r.df)))]

\* filtered["reward_text"].notna() & (... .astype(str).str.strip() != "")
has_text(t, i) ==
    /\ "reward_text" \in t.cols
    /\ notna(t.rows[i]["reward_text"])
    /\ Strip(py_str(t.rows[i]["reward_text"])) # ""

\* filtered["reward_has_amount"].fillna(False)
has_amount(t, i) ==
    /\ "reward_has_amount" \in t.cols
    /\ t.rows[i]["reward_has_amount"] = Bool(TRUE)

RewardFiltered(t, reward_filter) ==
    CASE reward_filter = "Has reward text" -> TakeRows(t, {i \in Rows(t) : has_text(t, i)})
      [] reward_filter = "No reward text" -> TakeRows(t, {i \in Rows(t) : ~has_text(t, i)})
      [] reward_filter = "Has numeric amount" -> TakeRows(t, {i \in Rows(t) : has_amount(t, i)})
      [] OTHER -> t

\* if reward_filter != "Any": ...
apply_reward_filter(r) ==
    IF r.status # "running" THEN r
    ELSE [r EXCEPT !.filtered = RewardFiltered(r.filtered, r.reward_filter)]

InRange(x, lo, hi) == notna(x) /\ lo.day <= x.day /\ x.day <= hi.day

\* if start_date and end_date and "publication" in filtered.columns: ...
apply_date_filter(r) ==
    IF r.status # "running" \/ ~notna(r.start_date) \/ "publication" \notin r.filtered.cols
    THEN r
    ELSE [r EXCEPT !.filtered =
             TakeRows(r.filtered,
                      {i \in Rows(r.filtered) :
                          InRange(r.filtered.rows[i]["publication"], r.start_date, r.end_date)})]

\* the three metrics and the data preview
metrics_and_preview(r) ==
    IF r.status # "running" THEN r
    ELSE Show(Show(Show(Show(Show(r, "metric: Listings (filtered)"),
                             "metric: Listings (total fetched)"),
                        "metric: Earliest publication"),
                   "subheader: Data Preview"),
              "dataframe: preview")

top_field_offices(r) ==
    IF r.status # "running" THEN r
    ELSE IF "field_offices" \in r.filtered.cols
    THEN Show(Show(r, "subheader: Top Field Offices"), "bar_chart: top_offices")
    ELSE Show(Show(r, "subheader: Top Field Offices"),
              "info: field_offices column not available in the current pull.")

listings_over_time(r) ==
    IF r.status # "running" THEN r
    ELSE IF "publication" \notin r.filtered.cols
    THEN Show(Show(r, "subheader: Listings Over Time"),
              "info: publication column not available in the current pull.")
    ELSE IF Empty(dropna(r.filtered, "publication"))
    THEN Show(Show(r, "subheader: Listings Over Time"),
              "info: No rows with publication dates after filtering.")
    ELSE Show(Show(r, "subheader: Listings Over Time"), "line_chart: by_month")

\* has_reward_cols = "reward_has_amount" in filtered.columns and ...
has_reward_cols(r) == {"reward_has_amount", "reward_amount_max_usd"} \subseteq r.filtered.cols

\* st.header("Rewards Analysis"); if not has_reward_cols: st.info(...)
rewards_header(r) ==
    IF r.status # "running" THEN r
    ELSE IF has_reward_cols(r) THEN Show(r, "header: Rewards Analysis")
    ELSE Show(Show(r, "header: Rewards Analysis"),
              "info: Reward parsing columns not found. Confirm rewards.py is applied inside clean_wanted().")

\* else: rewards_df = filtered[filtered["reward_has_amount"].fillna(False)].copy()
bind_rewards_df(r) ==
    IF r.status # "running" \/ ~has_reward_cols(r) THEN r
    ELSE [r EXCEPT !.rewards_df = with_amount(r.filtered),
                   !.locals = @ \cup {"rewards_df"}]

\* the four metrics of the else branch
reward_metrics(r) ==
    IF r.status # "running" \/ ~has_reward_cols(r) THEN r
    ELSE Show(Show(Show(Show(r, "metric: Listings with reward text"),
                        "metric: Listings with numeric reward"),
                   "metric: Max stated reward"),
              "metric: Median stated reward")

TopRewardColumns ==
    {"title", "reward_amount_max_usd", "reward_program", "subjects", "field_offices"}

\* with left2: rewards_df[[...]] raises KeyError for a column that is not there
top_rewards(r) ==
    IF r.status # "running" \/ ~has_reward_cols(r) THEN r
    ELSE IF Empty(r.rewards_df)
    THEN Show(Show(r, "subheader: Top Rewards (Max Amount)"),
              "info: No numeric rewards after filtering.")
    ELSE IF ~(TopRewardColumns \subseteq r.rewards_df.cols)
    THEN Fail(Show(r, "subheader: Top Rewards (Max Amount)"), "KeyError")
    ELSE Show(Show(r, "subheader: Top Rewards (Max Amount)"), "dataframe: top_rewards")

\* with right2
reward_distribution(r) ==
    IF r.status # "running" \/ ~has_reward_cols(r) THEN r
    ELSE IF Empty(r.rewards_df)
    THEN Show(Show(r, "subheader: Reward Amount Distribution"),
              "info: No numeric rewards to chart.")
    ELSE Show(Show(r, "subheader: Reward Amount Distribution"), "bar_chart: bucket_counts")

\* st.subheader("Median Reward by Subject (First Subject Only)")
median_subheader(r) ==
    IF r.status # "running" THEN r
    ELSE Show(r, "subheader: Median Reward by Subject (First Subject Only)")

\* if rewards_df.empty or "subjects" not in rewards_df.columns: ... else: ...
\* Reading the local name rewards_df before it is bound raises
\* UnboundLocalError.
median_by_subject(r) ==
    IF r.status # "running" THEN r
    ELSE IF "rewards_df" \notin r.locals THEN Fail(r, "UnboundLocalError")
    ELSE IF Empty(r.rewards_df) \/ "subjects" \notin r.rewards_df.cols
    THEN Show(r, "info: No numeric rewards or no subjects available.")
    ELSE Show(Show(r, "bar_chart: by_subject"),
              "caption: Uses the first subject tag only to avoid double-counting listings with multiple tags.")

end_of_main(r) == IF r.status # "running" THEN r ELSE Finish(r)

main(t, reward_filter) ==
    end_of_main(median_by_subject(median_subheader(reward_distribution(top_rewards(
        reward_metrics(bind_rewards_df(rewards_header(listings_over_time(
            top_field_offices(metrics_and_preview(apply_date_filter(apply_reward_filter(
                publication_range(check_empty(Session(t, reward_filter))))))))))))))))

(***************************************************************************)
(* The caller.                                                             *)
(***************************************************************************)
NoCall == [op |-> "none", by |-> "", status |-> "ok", value |-> EmptyFrame]

\* No run of main() has put anything on the page.
NoPage == [status |-> "none", shown |-> <<>>]

Init ==
    /\ \E n \in 0..MaxRows :
          \/ \E x \in RawCells(n) : df = RawTable(x)
          \/ \E u \in UidColumns(n), x \in SnapshotCells(n) : df = SnapshotTable(u, x)
          \/ \E u \in UidColumns(n), x \in RewardListings(n) : df = RewardTable(u, x)
          \/ n = 0 /\ df = EmptyFrame
          \/ /\ n < MaxRows
             /\ \E c \in SnapshotCols, u \in UidColumns(n), x \in SnapshotCells(n) :
                   df = Without(SnapshotTable(u, x), c)
          \/ /\ n < MaxRows
             /\ \E c \in RewardCols, u \in UidColumns(n), x \in RewardListings(n) :
                   df = Without(RewardTable(u, x), c)
    /\ ret = NoCall
    /\ passed = df
    /\ cleaned = FALSE
    /\ page = NoPage

Call(op, by, r) ==
    /\ ret.op = "none"
    /\ df' = r.arg
    /\ ret' = [op |-> op, by |-> by, status |-> r.status, value |-> r.value]
    /\ passed' = df
    /\ UNCHANGED <<cleaned, page>>

CallCleanWanted == Call("clean_wanted", "", clean_wanted(df))

CallQuantityOverTime == Call("quantity_over_time", "", quantity_over_time(df))

CallGeographicConcentration ==
    \E geography \in GeographyColumns :
        Call("geographic_concentration_over_time", geography,
             geographic_concentration_over_time(df, geography))

CallRewardByCrimeType == Call("reward_by_crime_type", "", reward_by_crime_type(df))

\* st.session_state["df"] = clean_wanted(df_raw): the caller keeps the cleaned
\* table as its table, and may clean it again.
AdoptCleaned ==
    /\ ret.op = "clean_wanted"
    /\ ret.status = "ok"
    /\ df' = ret.value
    /\ passed' = ret.value
    /\ ret' = NoCall
    /\ cleaned' = TRUE
    /\ UNCHANGED page

\* The caller is done with the result of a call.
Discard ==
    /\ ret.op # "none"
    /\ ret' = NoCall
    /\ passed' = df
    /\ page' = NoPage
    /\ UNCHANGED <<df, cleaned>>

\* A run of main() on the session's table, st.session_state["df"], which is
\* there once clean_wanted's result was kept; main() returns nothing.
RunMain ==
    /\ ret.op = "none"
    /\ cleaned
    /\ \E reward_filter \in RewardFilters :
          /\ page' = [status |-> main(df, reward_filter).status,
                      shown |-> main(df, reward_filter).shown]
          /\ ret' = [op |-> "main", by |-> reward_filter, status |-> page'.status,
                     value |-> EmptyFrame]
    /\ passed' = df
    /\ UNCHANGED <<df, cleaned>>

Next ==
    \/ CallCleanWanted
    \/ CallQuantityOverTime
    \/ CallGeographicConcentration
    \/ CallRewardByCrimeType
    \/ AdoptCleaned
    \/ RunMain
    \/ Discard

Spec == Init /\ [][Next]_vars

(***************************************************************************)
(* The record cleaner.                                                     *)
(***************************************************************************)
Cleaned == ret.op = "clean_wanted" /\ ret.status = "ok"

\* C1: for a raw table with a reward_text column, the table clean_wanted
\* returns carries reward_has_text, reward_has_amount and
\* reward_amount_max_usd on every record, with the values parse_reward gives
\* for that record's reward_text (null text: no text and no amount;
\* "$10,000": an amount, with maximum 10000).
C1_RewardColumnsAdded ==
    (ret.op = "clean_wanted" /\ "reward_text" \in passed.cols /\ passed.rows # <<>>) =>
        /\ ret.status = "ok"
        /\ {"reward_has_text", "reward_has_amount", "reward_amount_max_usd"}
               \subseteq ret.value.cols
        /\ \A i \in Rows(passed) :
              LET want == parse_reward(passed.rows[i]["reward_text"])
                  got == ret.value.rows[i]
              IN  /\ got["reward_has_text"] = want.reward_has_text
                  /\ got["reward_has_amount"] = want.reward_has_amount
                  /\ got["reward_amount_max_usd"] = want.reward_amount_max_usd

\* A date text pd.to_datetime can parse.
IsDateText(x) == x.kind = "str" /\ x.s \in DateTexts

\* C2: clean_wanted never raises; it returns one record per input record, in
\* the input's order; publication is NaT on exactly the records whose
\* publication cannot be parsed, and the timestamp of the text on the others.
C2_UnparsablePublicationCoerced ==
    (ret.op = "clean_wanted") =>
        /\ ret.status = "ok"
        /\ Len(ret.value.rows) = Len(passed.rows)
        /\ \A i \in Rows(passed) :
              /\ "uid" \in passed.cols => ret.value.rows[i]["uid"] = passed.rows[i]["uid"]
              /\ "publication" \in passed.cols =>
                    LET before == passed.rows[i]["publication"]
                        after == ret.value.rows[i]["publication"]
                    IN  /\ (after = NaT) <=> ~(IsDateText(before) \/ before.kind = "ts")
                        /\ IsDateText(before) => after = Ts(strptime(before.s))
                        /\ after.kind \in {"ts", "nat"}

C2_Witness ==
    /\ Cleaned
    /\ Len(passed.rows) = 2
    /\ passed.rows[1]["publication"] = Str("2024-01-15T00:00:00")
    /\ passed.rows[2]["publication"] = Str("not-a-date")
    /\ ret.value.rows[1]["publication"] = Ts(20240115)
    /\ ret.value.rows[2]["publication"] = NaT

\* The texts the parser is tried on: those of the raw tables, a blank text and
\* the texts of test_reward.py.
ParserTexts ==
    RewardTexts \cup
        {Str(""), Str("   "),
         Str("Reward of up to $2 million and an additional $200,000."),
         Str("Information leading to arrest may be eligible for a reward.")}

\* The reward fields of a record obey the data model.
RewardInvariant(r) ==
    /\ r["reward_has_amount"] = Bool(TRUE) =>
          /\ r["reward_amount_min_usd"].kind = "int"
          /\ r["reward_amount_max_usd"].kind = "int"
          /\ r["reward_amount_min_usd"].n >= 0
          /\ r["reward_amount_max_usd"].n >= r["reward_amount_min_usd"].n
    /\ r["reward_has_text"] = Bool(FALSE) =>
          /\ r["reward_has_amount"] = Bool(FALSE)
          /\ r["reward_amount_min_usd"] = Null
          /\ r["reward_amount_max_usd"] = Null

\* C5: every cleaned record carries reward fields that obey the data model:
\* an amount implies max >= min >= 0, and no text implies no amount and null
\* amounts; so does the parser's result for every text, null and blank
\* included.
C5_RewardInvariant ==
    /\ \A x \in ParserTexts :
          LET d == parse_reward(x)
          IN  RewardInvariant([c \in RewardFields |-> d[c]])
    /\ Cleaned =>
          \A i \in Rows(ret.value) :
              /\ {"reward_has_text", "reward_has_amount", "reward_amount_min_usd",
                  "reward_amount_max_usd"} \subseteq ret.value.cols
              /\ RewardInvariant(ret.value.rows[i])

\* C6: field_offices becomes the list's elements joined by ", " in order, the
\* empty string when null, and stays as it is when already a string; every
\* column other than publication and field_offices is passed through.
C6_FieldOfficesNormalized ==
    Cleaned =>
        /\ passed.cols \subseteq ret.value.cols
        /\ Len(ret.value.rows) = Len(passed.rows)
        /\ \A i \in Rows(passed) :
              /\ \A c \in passed.cols \ {"publication", "field_offices"} :
                    ret.value.rows[i][c] = passed.rows[i][c]
              /\ "field_offices" \in passed.cols =>
                    LET before == passed.rows[i]["field_offices"]
                        after == ret.value.rows[i]["field_offices"]
                    IN  /\ before.kind = "list" => after = Str(join(", ", before.items))
                        /\ before = List(<<Str("denver"), Str("saltlakecity")>>) =>
                              after = Str("denver, saltlakecity")
                        /\ before = List(<<>>) => after = Str("")
                        /\ before = Null => after = Str("")
                        /\ before.kind = "str" => after = before

C6_Witness ==
    /\ Cleaned
    /\ Len(passed.rows) = 2
    /\ passed.rows[1]["field_offices"] = List(<<Str("denver"), Str("saltlakecity")>>)
    /\ passed.rows[2]["field_offices"] = Null
    /\ ret.value.rows[1]["field_offices"] = Str("denver, saltlakecity")
    /\ ret.value.rows[2]["field_offices"] = Str("")
    /\ ret.value.rows[1]["reward_text"] = passed.rows[1]["reward_text"]

\* C7: cleaning the output of clean_wanted again gives the same publication
\* and field_offices values, the same number of rows and the same order.
C7_CleanIdempotent ==
    (Cleaned /\ cleaned) =>
        /\ Len(ret.value.rows) = Len(passed.rows)
        /\ \A i \in Rows(passed) :
              \A c \in passed.cols \cap {"uid", "publication", "field_offices"} :
                  ret.value.rows[i][c] = passed.rows[i][c]

C7_Witness ==
    /\ Cleaned
    /\ cleaned
    /\ Len(passed.rows) = 2
    /\ passed.rows[1]["publication"].kind = "ts"
    /\ passed.rows[2]["publication"] = NaT
    /\ passed.rows[1]["field_offices"] = Str("denver, saltlakecity")
    /\ passed.rows[2]["field_offices"] = Str("")
    /\ ret.value = passed

(***************************************************************************)
(* The aggregations.                                                       *)
(***************************************************************************)
Aggregated(op) == ret.op = op /\ ret.status = "ok"

\* The rows of the result whose column c holds v.
ResultRows(c, v) == {j \in Rows(ret.value) : ret.value.rows[j][c] = v}

\* The subject tags of the model, as cleaned labels.
Tags == {"Terrorism", "Bombing"}

\* The listing of row i carries the tag (labels are compared trimmed).
CarriesTag(t, i, tag) ==
    /\ t.rows[i]["subjects"].kind = "list"
    /\ \E k \in 1..Len(t.rows[i]["subjects"].items) :
          /\ t.rows[i]["subjects"].items[k].kind = "str"
          /\ Strip(t.rows[i]["subjects"].items[k].s) = tag

\* The rows of listings with a numeric reward that carry the tag.
Rewarded(t, tag) ==
    {i \in Rows(t) : t.rows[i]["reward_has_amount"] = Bool(TRUE) /\ CarriesTag(t, i, tag)}

\* One row per distinct listing: the first of each uid.
Listings(t, tag) ==
    {i \in Rewarded(t, tag) :
        ~\E j \in Rewarded(t, tag) : j < i /\ t.rows[j]["uid"] = t.rows[i]["uid"]}

RewardAt(t, i) == t.rows[i]["reward_amount_max_usd"].n

\* m is the median of the rewards of the rows L: the mean of the lower and
\* the upper middle value.
IsMedian(t, L, m) ==
    LET n == Cardinality(L)
        AtMost(v) == Cardinality({i \in L : RewardAt(t, i) <= v})
        Below(v) == Cardinality({i \in L : RewardAt(t, i) < v})
        Kth(k, v) == AtMost(v) >= k /\ Below(v) < k
    IN  \E a, b \in L :
            /\ Kth((n + 1) \div 2, RewardAt(t, a))
            /\ Kth(n \div 2 + 1, RewardAt(t, b))
            /\ m.kind = "frac"
            /\ 2 * m.num = (RewardAt(t, a) + RewardAt(t, b)) * m.den

C4_RowForEveryTag ==
    Aggregated("reward_by_crime_type") =>
        \A tag \in Tags :
            (\E i \in Rows(passed) : CarriesTag(passed, i, tag)) =>
                ResultRows("crime_type", Str(tag)) # {}

(***************************************************************************)
(* Snapshot dates as the input gives them, read as days.                   *)
(***************************************************************************)
HasDay(x) == IsDateText(x) \/ x.kind = "ts"

DayOf(x) == IF x.kind = "ts" THEN x.day ELSE strptime(x.s)

\* The distinct uids of the input rows of a set.
UidsOf(t, I) == {t.rows[i]["uid"] : i \in I}

RECURSIVE SumOver(_, _)
SumOver(J, f) ==
    IF J = {} THEN 0
    ELSE LET j == CHOOSE x \in J : TRUE IN f[j] + SumOver(J \ {j}, f)

Dated(t) == {i \in Rows(t) : HasDay(t.rows[i]["snapshot_date"])}

\* quantity_over_time gives one row per distinct snapshot date of the input,
\* in ascending order, with the number of distinct uids of that date.
OneRowPerPeriod ==
    LET out == ret.value
    IN  /\ {out.rows[j]["snapshot_date"] : j \in Rows(out)}
              = {Ts(DayOf(passed.rows[i]["snapshot_date"])) : i \in Dated(passed)}
        /\ \A j \in 1..Len(out.rows) - 1 :
              out.rows[j]["snapshot_date"].day < out.rows[j + 1]["snapshot_date"].day
        /\ \A j \in Rows(out) :
              out.rows[j]["total_listings"] =
                  Num(Cardinality(UidsOf(passed,
                        {i \in Dated(passed) :
                            Ts(DayOf(passed.rows[i]["snapshot_date"]))
                                = out.rows[j]["snapshot_date"]})))

\* No uid occurs in more than one period.
NoUidAcrossPeriods ==
    \A i, k \in Dated(passed) :
        passed.rows[i]["uid"] = passed.rows[k]["uid"] =>
            DayOf(passed.rows[i]["snapshot_date"]) = DayOf(passed.rows[k]["snapshot_date"])

TotalCounted ==
    SumOver(Rows(ret.value), [j \in Rows(ret.value) |-> ret.value.rows[j]["total_listings"].n])

\* C9 as stated: one row per distinct period, ascending, counting distinct
\* uids; when no uid occurs in more than one period the counts sum to the
\* number of distinct uids of the whole input.
C9_CountsSumToAllUids ==
    Aggregated("quantity_over_time") =>
        /\ OneRowPerPeriod
        /\ NoUidAcrossPeriods =>
              TotalCounted = Cardinality(UidsOf(passed, Rows(passed)))

\* C9 amended: as C9, with the sum equal to the number of distinct uids of
\* the records that have a snapshot date; a record whose snapshot_date is
\* missing is in no period.
C9_CountsSumToDatedUids ==
    Aggregated("quantity_over_time") =>
        /\ OneRowPerPeriod
        /\ NoUidAcrossPeriods =>
              TotalCounted = Cardinality(UidsOf(passed, Dated(passed)))

C9_Witness ==
    /\ Aggregated("quantity_over_time")
    /\ Len(passed.rows) = 2
    /\ passed.rows[1]["snapshot_date"] = Str("2024-02-01")
    /\ passed.rows[2]["snapshot_date"] = Str("2024-01-05")
    /\ passed.rows[2]["uid"] = Num(2)
    /\ NoUidAcrossPeriods
    /\ Len(ret.value.rows) = 2
    /\ ret.value.rows[1]["snapshot_date"] = Ts(20240105)
    /\ TotalCounted = 2

(***************************************************************************)
(* Frame.                                                                  *)
(***************************************************************************)
\* What a call of op on table t returns.
Result(op, by, t) ==
    LET r == CASE op = "clean_wanted" -> clean_wanted(t)
               [] op = "quantity_over_time" -> quantity_over_time(t)
               [] op = "geographic_concentration_over_time" ->
                      geographic_concentration_over_time(t, by)
               [] op = "reward_by_crime_type" -> reward_by_crime_type(t)
    IN  [status |-> r.status, value |-> r.value]

\* C10: a call of clean_wanted, quantity_over_time,
\* geographic_concentration_over_time or reward_by_crime_type leaves the
\* caller's table as it was passed, and the same call on it again returns the
\* same result.
C10_CallerTableUnchanged ==
    ret.op \notin {"none", "main"} =>
        /\ df = passed
        /\ Result(ret.op, ret.by, df) = [status |-> ret.status, value |-> ret.value]

C10_Witness ==
    /\ Cleaned
    /\ Len(passed.rows) = 2
    /\ passed.rows[1]["publication"] = Str("2024-01-15T00:00:00")
    /\ ret.value.rows[1]["publication"] = Ts(20240115)
    /\ df.rows[1]["publication"] = Str("2024-01-15T00:00:00")

(***************************************************************************)
(* Missing required columns.                                               *)
(***************************************************************************)
Aggregations ==
    {"quantity_over_time", "geographic_concentration_over_time", "reward_by_crime_type"}

\* The columns an aggregation requires; by is the geography column asked for.
RequiredColumns(op, by) ==
    CASE op = "quantity_over_time" -> {"snapshot_date", "uid"}
      [] op = "geographic_concentration_over_time" -> {"snapshot_date", "uid", by}
      [] op = "reward_by_crime_type" ->
             {"uid", "subjects", "reward_has_amount", "reward_amount_max_usd"}
      [] OTHER -> {}

LacksRequired == ret.op \in Aggregations /\ ~(RequiredColumns(ret.op, ret.by) \subseteq passed.cols)

RewardNotice ==
    "info: Reward parsing columns not found. Confirm rewards.py is applied inside clean_wanted()."

\* What the page shows only from the parsed reward columns.
RewardDependent ==
    {"metric: Listings with numeric reward", "metric: Max stated reward",
     "metric: Median stated reward", "dataframe: top_rewards",
     "bar_chart: bucket_counts", "bar_chart: by_subject"}

\* A run of main() on a non-empty cleaned table without the parsed reward
\* columns.
RanWithoutRewardColumns ==
    /\ ret.op = "main"
    /\ ~Empty(passed)
    /\ ~({"reward_has_amount", "reward_amount_max_usd"} \subseteq passed.cols)

\* C12: a run of main() on a non-empty cleaned table that lacks
\* reward_has_amount or reward_amount_max_usd shows the 'Reward parsing
\* columns not found' notice, shows nothing that depends on the reward
\* columns, and reaches the end of main() without raising.
C12_RewardsPartDegrades ==
    RanWithoutRewardColumns =>
        /\ RewardNotice \in Range(page.shown)
        /\ Range(page.shown) \cap RewardDependent = {}
        /\ page.status = "ok"

(***************************************************************************)
(* The crime types of reward_by_crime_type.                                *)
(***************************************************************************)
\* The crime_type values of the result.
CrimeTypes == {ret.value.rows[j]["crime_type"].s : j \in Rows(ret.value)}

\* C13: every crime_type of reward_by_crime_type's result is a non-blank,
\* trimmed tag found in the subjects list of a listing with reward_has_amount
\* true; a listing whose subjects list is empty or holds a null element adds
\* no row.
C13_CrimeTypesAreTags ==
    Aggregated("reward_by_crime_type") =>
        \A c \in CrimeTypes :
            /\ c # ""
            /\ Strip(c) = c
            /\ Rewarded(passed, c) # {}

====
